---- MODULE Spec2Model ----
(***************************************************************************)
(* ChatAi: the message-stream reconciliation logic of src/App.tsx.         *)
(*                                                                         *)
(* The React state of App (messages, isLoading, error, chatSession,        *)
(* activeAiMessageId) is the state of the machine.  Every synchronous      *)
(* segment of JavaScript (an event handler up to its first await, the      *)
(* continuation after an await, an effect) is one action: JavaScript runs  *)
(* each segment to completion and React commits the state updates of one   *)
(* segment together.  Strings are sequences of tokens, so concatenation,   *)
(* trimming and emptiness are computed, not assumed.                       *)
(***************************************************************************)
EXTENDS Integers, Sequences, FiniteSets, TLC

(***************************************************************************)
(* Bounds of the model.                                                    *)
(***************************************************************************)
MaxClock == 3
MaxSends == 2
MaxChunks == 3

(***************************************************************************)
(* Strings.  A string is a sequence of tokens; the token " " is            *)
(* whitespace.  The empty sequence is the empty string.                    *)
(***************************************************************************)
IsSpace(ch) == ch = " "

RECURSIVE TrimStart(_)
TrimStart(s) ==
  IF s = <<>> THEN <<>>
  ELSE IF IsSpace(Head(s)) THEN TrimStart(Tail(s)) ELSE s

RECURSIVE TrimEnd(_)
TrimEnd(s) ==
  IF s = <<>> THEN <<>>
  ELSE IF IsSpace(s[Len(s)]) THEN TrimEnd(SubSeq(s, 1, Len(s) - 1)) ELSE s

\* String.prototype.trim
Trim(s) == TrimEnd(TrimStart(s))

\* JavaScript truthiness of a string: the empty string is falsy.
Truthy(s) == s # <<>>

\* String.prototype.includes: needle occurs as a contiguous run of hay.
Includes(hay, needle) ==
  \E i \in 0..(Len(hay) - Len(needle)) :
    SubSeq(hay, i + 1, i + Len(needle)) = needle

(***************************************************************************)
(* Values of the program.                                                  *)
(***************************************************************************)
\* MessageRole (types.ts): the two roles a record can have.
USER == "user"
AI == "ai"

\* null for activeAiMessageId; Date.now() is positive, so no id equals it.
null == 0

\* null for the error state.  The code only tests error for truthiness
\* (lines 262, 265, 456) and every error string it sets is non-empty, so
\* null is represented by the empty string.
NoError == <<>>

WelcomeText == <<"Hello, I am ChatAi\nHow can I help you?">>
ConfigErrorText == <<"Configuration Error: The API Key is missing.">>
keyErrorMsg == <<"CRITICAL: API Key is not configured. Please check index.html.">>

\* A thrown value e: e.message is either undefined (has = FALSE) or a string.
Errors ==
  { [has |-> FALSE, message |-> <<>>],
    [has |-> TRUE, message |-> <<>>],
    [has |-> TRUE, message |-> <<"timeout">>] }

\* e.message ?? fallback: only an undefined message falls back.
MessageOrUndefined(e, fallback) ==
  IF e.has THEN e.message ELSE fallback

\* e.message || fallback
MessageOr(e, fallback) ==
  IF e.has /\ Truthy(e.message) THEN e.message ELSE fallback

\* line 140
initErrorMsg(e) ==
  <<"Failed to initialize AI. Details: ">> \o MessageOr(e, <<"Unknown error">>)

\* line 148
InitErrorText(e) ==
  <<"Error initializing AI: ">> \o MessageOr(e, <<"Unknown error">>)
    \o <<". Please check the browser console for more details.">>

\* line 238
errorMessage(e) ==
  <<"Sorry, I encountered an error: ">> \o MessageOr(e, <<"Unknown API error">>)

\* The prompts a caller passes to handleSendMessage.
Prompts == { <<" ">>, <<" ", "X", " ">> }

\* chunk.text of the chunks a stream yields.
Fragments == { <<>>, <<"a">>, <<"b">> }

VARIABLES
  messages,            \* useState<ChatMessageData[]>, line 50
  isLoading,           \* line 53
  error,               \* line 56
  chatSession,         \* line 59: "null" or "chat"
  activeAiMessageId,   \* line 62
  apiKey,              \* line 75: whether an API key is configured
  initDone,            \* whether the initialization effect has run
  rIsLoading,          \* isLoading as captured by the rendered callbacks
  rChatSession,        \* chatSession as captured by the rendered callbacks
  now,                 \* the latest value read from the clock
  calls,               \* the invocations of handleSendMessage in flight:
                       \* their locals (prompt, newAiMessageId,
                       \* accumulatedResponseText), where they stand (pc) and
                       \* history (k: number of the exchange, chunks: the
                       \* fragments received, index: where the placeholder
                       \* was appended, stale: whether handleNewChat has
                       \* replaced the transcript since)
  nAccepted,           \* history: number of accepted sends
  nCleanup,            \* history: number of runs of the finally block
  nChunks,             \* history: number of chunks the streams have yielded
  nEscaped,            \* history: number of values thrown out of
                       \* handleSendMessage
  lastOp,              \* history: the step just taken
  message,             \* ChatInput.tsx: the draft in the input box
  route,               \* the page shown: "/" (chat) or "/about"
  sidebarCollapsed     \* line 65

vars == << messages, isLoading, error, chatSession, activeAiMessageId, apiKey,
           initDone, rIsLoading, rChatSession, now, calls, nAccepted,
           nCleanup, nChunks, nEscaped, lastOp, message, route,
           sidebarCollapsed >>

\* A ChatMessageData record.
Message(id, role, text, ts) ==
  [id |-> id, role |-> role, text |-> text, timestamp |-> ts]

\* What lastOp records of a step: the operation, whether it took effect (a
\* send was accepted, a chunk had text), the string it was given (prompt or
\* fragment) and the value thrown, if any.
NoThrow == [has |-> FALSE, message |-> <<>>]
Op(name, ok, arg, e) == [op |-> name, ok |-> ok, arg |-> arg, e |-> e]

\* The welcome record of lines 130-135 and 281-286.
WelcomeMessage(t) == Message(t, AI, WelcomeText, t)

\* A replacement that also stamps the record with a new time.
ReplaceTextRestamping(msgs, id, text) ==
  [i \in 1..Len(msgs) |->
     IF msgs[i].id = id
       THEN [msgs[i] EXCEPT !.text = text, !.timestamp = 0] ELSE msgs[i]]

\* prevMessages.map(msg => msg.id === id ? { ...msg, text } : msg), lines 228-232
ReplaceText(msgs, id, text) ==
  [i \in 1..Len(msgs) |->
     IF msgs[i].id = id THEN [msgs[i] EXCEPT !.text = text] ELSE msgs[i]]

\* An error overwrite that turns the record into a USER record.
ReplaceTextAndRoleAsUser(msgs, id, text) ==
  [i \in 1..Len(msgs) |->
     IF msgs[i].id = id
       THEN [msgs[i] EXCEPT !.text = text, !.role = USER] ELSE msgs[i]]

\* prevMessages.map(msg => msg.id === id ? { ...msg, text, role: AI } : msg),
\* lines 242-246
ReplaceTextAndRole(msgs, id, text) ==
  [i \in 1..Len(msgs) |->
     IF msgs[i].id = id
       THEN [msgs[i] EXCEPT !.text = text, !.role = AI] ELSE msgs[i]]

\* An append that puts the placeholder before the user record.
AppendExchangeSwapped(msgs, userMessage, placeholder) ==
  msgs \o << placeholder, userMessage >>

\* Lines 207-211: the user record and the empty placeholder, appended in
\* this order.
AppendExchange(msgs, userMessage, placeholder) ==
  msgs \o << userMessage, placeholder >>

\* An accumulation that an empty chunk resets.
AccumulateResetting(acc, f) == IF Truthy(f) THEN acc \o f ELSE <<>>

\* Lines 223-225: accumulatedResponseText after a chunk whose text is f.
Accumulate(acc, f) == IF Truthy(f) THEN acc \o f ELSE acc

Init ==
  /\ messages = <<>>
  /\ isLoading = TRUE
  /\ error = NoError
  /\ chatSession = "null"
  /\ activeAiMessageId = null
  /\ apiKey \in BOOLEAN
  /\ initDone = FALSE
  /\ rIsLoading = TRUE
  /\ rChatSession = "null"
  /\ now = 1
  /\ calls = {}
  /\ nAccepted = 0
  /\ nCleanup = 0
  /\ nChunks = 0
  /\ nEscaped = 0
  /\ lastOp = Op("construct", TRUE, <<>>, NoThrow)
  /\ message = <<>>
  /\ route = "/"
  /\ sidebarCollapsed = FALSE

\* Date.now(): the clock never runs backwards, so a read returns some value
\* from the latest one read onwards.
DateNow == now..MaxClock

\* The initialization effect, lines 97-155, when no API key is configured.
InitNoKey ==
  /\ ~initDone
  /\ ~apiKey
  /\ error' = keyErrorMsg
  /\ \E t \in DateNow :
       /\ now' = t
       /\ messages' = << Message(t, AI, ConfigErrorText, t) >>
  /\ isLoading' = FALSE
  /\ initDone' = TRUE
  /\ lastOp' = Op("init", FALSE, <<>>, NoThrow)
  /\ UNCHANGED << chatSession, activeAiMessageId, apiKey, rIsLoading,
                  rChatSession, calls, nAccepted, nCleanup, nChunks,
                  nEscaped,
                  message, route, sidebarCollapsed >>

\* The initialization effect when ai.chats.create returns a session.
InitCreated ==
  /\ ~initDone
  /\ apiKey
  /\ chatSession' = "chat"
  /\ \E t \in DateNow :
       /\ now' = t
       /\ messages' = << WelcomeMessage(t) >>
  /\ error' = NoError
  /\ isLoading' = FALSE
  /\ initDone' = TRUE
  /\ lastOp' = Op("init", TRUE, <<>>, NoThrow)
  /\ UNCHANGED << activeAiMessageId, apiKey, rIsLoading, rChatSession,
                  calls, nAccepted, nCleanup, nChunks, nEscaped,
                  message, route, sidebarCollapsed >>

\* An initialization failure whose finally block leaves isLoading set.
InitThrowsKeepingLoading(e) ==
  /\ ~initDone
  /\ apiKey
  /\ error' = initErrorMsg(e)
  /\ \E t \in DateNow :
       /\ now' = t
       /\ messages' = << Message(t, AI, InitErrorText(e), t) >>
  /\ isLoading' = isLoading
  /\ initDone' = TRUE
  /\ lastOp' = Op("init", FALSE, <<>>, e)
  /\ UNCHANGED << chatSession, activeAiMessageId, apiKey, rIsLoading,
                  rChatSession, calls, nAccepted, nCleanup, nChunks,
                  nEscaped,
                  message, route, sidebarCollapsed >>

\* The initialization effect when creating the session throws e.
InitThrows(e) ==
  /\ ~initDone
  /\ apiKey
  /\ error' = initErrorMsg(e)
  /\ \E t \in DateNow :
       /\ now' = t
       /\ messages' = << Message(t, AI, InitErrorText(e), t) >>
  /\ isLoading' = FALSE
  /\ initDone' = TRUE
  /\ lastOp' = Op("init", FALSE, <<>>, e)
  /\ UNCHANGED << chatSession, activeAiMessageId, apiKey, rIsLoading,
                  rChatSession, calls, nAccepted, nCleanup, nChunks,
                  nEscaped,
                  message, route, sidebarCollapsed >>

\* React re-renders after state updates made outside an event handler: the
\* callbacks are re-created with the current isLoading and chatSession
\* (dependency list of line 252).
Render ==
  /\ << rIsLoading, rChatSession >> # << isLoading, chatSession >>
  /\ rIsLoading' = isLoading
  /\ rChatSession' = chatSession
  /\ lastOp' = Op("render", TRUE, <<>>, NoThrow)
  /\ UNCHANGED << messages, isLoading, error, chatSession, activeAiMessageId,
                  apiKey, initDone, now, calls, nAccepted, nCleanup, nChunks,
                  nEscaped,
                  message, route, sidebarCollapsed >>

\* The guard testing the prompt without trimming it.
RejectedUntrimmed(prompt) ==
  \/ ~Truthy(prompt)
  \/ rIsLoading
  \/ rChatSession = "null"

\* The guard without its isLoading test.
RejectedIgnoringLoading(prompt) ==
  \/ ~Truthy(Trim(prompt))
  \/ rChatSession = "null"

\* The guard refusing every prompt while an error is recorded.
RejectedAfterError(prompt) ==
  \/ ~Truthy(Trim(prompt))
  \/ rIsLoading
  \/ rChatSession = "null"
  \/ Truthy(error)

\* The guard without its chatSession test.
RejectedIgnoringSession(prompt) ==
  \/ ~Truthy(Trim(prompt))
  \/ rIsLoading

\* The guard of line 188, on the values the callback captured.
Rejected(prompt) ==
  \/ ~Truthy(Trim(prompt))
  \/ rIsLoading
  \/ rChatSession = "null"

\* A send that clears the error when it is accepted (the statement that
\* line 192 has as a comment).
handleSendMessageClearingError(prompt) ==
  /\ initDone
  /\ IF Rejected(prompt)
       THEN /\ lastOp' = Op("send", FALSE, prompt, NoThrow)
            /\ UNCHANGED << messages, isLoading, error, chatSession,
                            activeAiMessageId, apiKey, initDone, rIsLoading,
                            rChatSession, now, calls, nAccepted, nCleanup, nChunks,
                            nEscaped, route, sidebarCollapsed >>
       ELSE /\ nAccepted < MaxSends
            /\ \E t \in DateNow, t2 \in DateNow :
                 /\ t <= t2
                 /\ now' = t2
                 /\ LET newAiMessageId == t2 + 1
                        userMessage == Message(t, USER, prompt, t)
                    IN /\ isLoading' = TRUE
                       /\ activeAiMessageId' = newAiMessageId
                       /\ messages' = AppendExchange(messages, userMessage,
                            Message(newAiMessageId, AI, <<>>, t2))
                       /\ calls' = calls \cup
                            { [k |-> nAccepted + 1,
                               prompt |-> prompt,
                               newAiMessageId |-> newAiMessageId,
                               accumulatedResponseText |-> <<>>,
                               pc |-> "open",
                               chunks |-> <<>>,
                               index |-> Len(messages) + 2,
                               stale |-> FALSE] }
            /\ rIsLoading' = TRUE
            /\ nAccepted' = nAccepted + 1
            /\ error' = NoError
            /\ lastOp' = Op("send", TRUE, prompt, NoThrow)
            /\ UNCHANGED << chatSession, apiKey, initDone,
                            rChatSession, nCleanup, nChunks, nEscaped,
                            route, sidebarCollapsed >>

\* handleSendMessage(prompt), lines 186-218: the guard, and for an accepted
\* prompt the synchronous part up to the await of sendMessageStream.  The
\* reads of Date.now() at lines 196 and 203 return t and t2.  The draft of
\* the input box belongs to the caller (ChatInput), which runs in the same
\* step.
handleSendMessage(prompt) ==
  /\ initDone
  /\ IF Rejected(prompt)
       THEN /\ lastOp' = Op("send", FALSE, prompt, NoThrow)
            /\ UNCHANGED << messages, isLoading, error, chatSession,
                            activeAiMessageId, apiKey, initDone, rIsLoading,
                            rChatSession, now, calls, nAccepted, nCleanup, nChunks,
                            nEscaped, route, sidebarCollapsed >>
       ELSE /\ nAccepted < MaxSends
            /\ \E t \in DateNow, t2 \in DateNow :
                 /\ t <= t2
                 /\ now' = t2
                 /\ LET newAiMessageId == t2 + 1
                        userMessage == Message(t, USER, prompt, t)
                    IN /\ isLoading' = TRUE
                       /\ activeAiMessageId' = newAiMessageId
                       /\ messages' = AppendExchange(messages, userMessage,
                            Message(newAiMessageId, AI, <<>>, t2))
                       /\ calls' = calls \cup
                            { [k |-> nAccepted + 1,
                               prompt |-> prompt,
                               newAiMessageId |-> newAiMessageId,
                               accumulatedResponseText |-> <<>>,
                               pc |-> "open",
                               chunks |-> <<>>,
                               index |-> Len(messages) + 2,
                               stale |-> FALSE] }
            /\ rIsLoading' = TRUE
            /\ nAccepted' = nAccepted + 1
            /\ lastOp' = Op("send", TRUE, prompt, NoThrow)
            /\ UNCHANGED << error, chatSession, apiKey, initDone,
                            rChatSession, nCleanup, nChunks, nEscaped,
                            route, sidebarCollapsed >>

\* An open that leaves the error of an earlier exchange in place.
StreamOpenKeepingError(c) ==
  /\ c \in calls
  /\ c.pc = "open"
  /\ error' = error
  /\ calls' = (calls \ {c}) \cup { [c EXCEPT !.pc = "stream"] }
  /\ lastOp' = Op("open", TRUE, <<>>, NoThrow)
  /\ UNCHANGED << messages, isLoading, chatSession, activeAiMessageId,
                  apiKey, initDone, rIsLoading, rChatSession, now,
                  nAccepted, nCleanup, nChunks, nEscaped,
                  message, route, sidebarCollapsed >>

\* The promise of sendMessageStream resolves, lines 218-219.
StreamOpen(c) ==
  /\ c \in calls
  /\ c.pc = "open"
  /\ error' = NoError
  /\ calls' = (calls \ {c}) \cup { [c EXCEPT !.pc = "stream"] }
  /\ lastOp' = Op("open", TRUE, <<>>, NoThrow)
  /\ UNCHANGED << messages, isLoading, chatSession, activeAiMessageId,
                  apiKey, initDone, rIsLoading, rChatSession, now,
                  nAccepted, nCleanup, nChunks, nEscaped,
                  message, route, sidebarCollapsed >>

\* A loop that takes chunks before the stream has opened.
StreamChunkAnyPhase(c, f) ==
  /\ c \in calls
  /\ nChunks < MaxChunks
  /\ nChunks' = nChunks + 1
  /\ LET acc == Accumulate(c.accumulatedResponseText, f)
     IN /\ messages' = IF Truthy(f)
                         THEN ReplaceText(messages, c.newAiMessageId, acc)
                         ELSE messages
        /\ calls' = (calls \ {c}) \cup
             { [c EXCEPT !.accumulatedResponseText = acc,
                         !.chunks = Append(c.chunks, f)] }
  /\ lastOp' = Op("chunk", Truthy(f), f, NoThrow)
  /\ UNCHANGED << isLoading, error, chatSession, activeAiMessageId, apiKey,
                  initDone, rIsLoading, rChatSession, now, nAccepted,
                  nCleanup, nEscaped, message, route, sidebarCollapsed >>

\* One iteration of the for-await loop, lines 222-234, on a chunk whose
\* text is f.
StreamChunk(c, f) ==
  /\ c \in calls
  /\ c.pc = "stream"
  /\ nChunks < MaxChunks
  /\ nChunks' = nChunks + 1
  /\ LET acc == Accumulate(c.accumulatedResponseText, f)
     IN /\ messages' = IF Truthy(f)
                         THEN ReplaceText(messages, c.newAiMessageId, acc)
                         ELSE messages
        /\ calls' = (calls \ {c}) \cup
             { [c EXCEPT !.accumulatedResponseText = acc,
                         !.chunks = Append(c.chunks, f)] }
  /\ lastOp' = Op("chunk", Truthy(f), f, NoThrow)
  /\ UNCHANGED << isLoading, error, chatSession, activeAiMessageId, apiKey,
                  initDone, rIsLoading, rChatSession, now, nAccepted,
                  nCleanup, nEscaped,
                  message, route, sidebarCollapsed >>

\* A finally block that forgets the active message id.
CleanupKeepingActive ==
  /\ isLoading' = FALSE
  /\ activeAiMessageId' = activeAiMessageId
  /\ nCleanup' = nCleanup + 1

\* A finally block that forgets the loading flag.
CleanupKeepingLoading ==
  /\ isLoading' = isLoading
  /\ activeAiMessageId' = null
  /\ nCleanup' = nCleanup + 1

\* The finally block, lines 247-251.
Cleanup ==
  /\ isLoading' = FALSE
  /\ activeAiMessageId' = null
  /\ nCleanup' = nCleanup + 1

\* A loop exit that skips the finally block.
StreamCompleteWithoutFinally(c) ==
  /\ c \in calls
  /\ c.pc = "stream"
  /\ calls' = calls \ {c}
  /\ lastOp' = Op("complete", TRUE, <<>>, NoThrow)
  /\ UNCHANGED << messages, isLoading, activeAiMessageId, nCleanup, error,
                  chatSession, apiKey, initDone, rIsLoading, rChatSession,
                  now, nAccepted, nChunks, nEscaped,
                  message, route, sidebarCollapsed >>

\* The stream ends: the loop exits and the finally block runs.
StreamComplete(c) ==
  /\ c \in calls
  /\ c.pc = "stream"
  /\ Cleanup
  /\ calls' = calls \ {c}
  /\ lastOp' = Op("complete", TRUE, <<>>, NoThrow)
  /\ UNCHANGED << messages, error, chatSession, apiKey, initDone, rIsLoading,
                  rChatSession, now, nAccepted, nChunks, nEscaped,
                  message, route, sidebarCollapsed >>

\* A try block that starts after the await of sendMessageStream.
InTryLoopOnly(pc) == pc = "stream"

\* The try block, lines 216-234, holds the await of sendMessageStream
\* (pc = "open") and the loop over the stream (pc = "stream").
InTry(pc) == pc \in {"open", "stream"}

\* sendMessageStream rejects, or the stream throws e while iterating: the
\* catch block, lines 235-246, then the finally block.  A value thrown
\* outside the try block would leave handleSendMessage as a rejection.
StreamFail(c, e) ==
  /\ c \in calls
  /\ calls' = calls \ {c}
  /\ IF InTry(c.pc)
       THEN /\ error' = errorMessage(e)
            /\ messages' = ReplaceTextAndRole(messages, c.newAiMessageId,
                                              errorMessage(e))
            /\ Cleanup
            /\ nEscaped' = nEscaped
            /\ lastOp' = Op(IF c.pc = "open" THEN "openFail" ELSE "streamFail",
                            TRUE, <<>>, e)
       ELSE /\ nEscaped' = nEscaped + 1
            /\ lastOp' = Op("escape", FALSE, <<>>, e)
            /\ UNCHANGED << messages, isLoading, error, activeAiMessageId,
                            nCleanup >>
  /\ UNCHANGED << chatSession, apiKey, initDone, rIsLoading, rChatSession,
                  now, nAccepted, nChunks, message, route,
                  sidebarCollapsed >>

\* A new chat that appends the welcome record to the transcript.
handleNewChatAppending ==
  /\ initDone
  /\ \E t \in DateNow :
       /\ now' = t
       /\ messages' = Append(messages, WelcomeMessage(t))
  /\ calls' = { [c EXCEPT !.stale = TRUE] : c \in calls }
  /\ route' = "/"
  /\ lastOp' = Op("newChat", TRUE, <<>>, NoThrow)
  /\ UNCHANGED << isLoading, error, chatSession, activeAiMessageId, apiKey,
                  initDone, rIsLoading, rChatSession, nAccepted, nCleanup,
                  nChunks, nEscaped, message, sidebarCollapsed >>

\* handleNewChat, lines 278-288: navigate('/') and the reset of the
\* transcript.  The input box is either mounted already or mounted anew
\* with the empty draft that handleAbout left.
handleNewChat ==
  /\ initDone
  /\ \E t \in DateNow :
       /\ now' = t
       /\ messages' = << WelcomeMessage(t) >>
  /\ calls' = { [c EXCEPT !.stale = TRUE] : c \in calls }
  /\ route' = "/"
  /\ lastOp' = Op("newChat", TRUE, <<>>, NoThrow)
  /\ UNCHANGED << isLoading, error, chatSession, activeAiMessageId, apiKey,
                  initDone, rIsLoading, rChatSession, nAccepted, nCleanup,
                  nChunks, nEscaped, message, sidebarCollapsed >>

\* Lines 259-265.
lastMessage == IF Len(messages) > 0 THEN messages[Len(messages)] ELSE null

\* A test that takes any AI record at the tail for the error's record.
errorAlreadyInLastMessageAnyAi ==
  /\ Truthy(error)
  /\ Len(messages) > 0
  /\ messages[Len(messages)].role = AI

errorAlreadyInLastMessage ==
  /\ Truthy(error)
  /\ Len(messages) > 0
  /\ messages[Len(messages)].role = AI
  /\ Includes(messages[Len(messages)].text, error)

\* A banner shown for every error.
showBannerErrorAlways == Truthy(error)

showBannerError == Truthy(error) /\ ~errorAlreadyInLastMessage

\* The Dismiss button of the banner, lines 336-347, on the chat page.
DismissError ==
  /\ initDone
  /\ route = "/"
  /\ showBannerError
  /\ error' = NoError
  /\ lastOp' = Op("dismiss", TRUE, <<>>, NoThrow)
  /\ UNCHANGED << messages, isLoading, chatSession, activeAiMessageId, apiKey,
                  initDone, rIsLoading, rChatSession, now, calls, nAccepted,
                  nCleanup, nChunks, nEscaped,
                  message, route, sidebarCollapsed >>

\* send(prompt): the callback of line 186 invoked with prompt by a caller
\* that holds no draft.
send(prompt) == handleSendMessage(prompt) /\ UNCHANGED message

Next ==
  \/ InitNoKey
  \/ InitCreated
  \/ \E e \in Errors : InitThrows(e)
  \/ Render
  \/ \E p \in Prompts : send(p)
  \/ \E c \in calls : StreamOpen(c)
  \/ \E c \in calls, f \in Fragments : StreamChunk(c, f)
  \/ \E c \in calls : StreamComplete(c)
  \/ \E c \in calls, e \in Errors : StreamFail(c, e)
  \/ handleNewChat
  \/ DismissError

Spec == Init /\ [][Next]_vars

(***************************************************************************)
(* The user interface around the exchange logic: the input box             *)
(* (components/ChatInput.tsx), the two pages and the sidebar.              *)
(***************************************************************************)
\* What the user can make the draft: e.target.value of the textarea.
Drafts == { <<>>, <<" ">>, <<" ", "X", " ">>, <<"X">> }

\* event.key of the keys the user presses in the textarea.
Keys == { "Enter", "a" }

\* Every variable but the draft, the step record and the page.
appVars == << messages, isLoading, error, chatSession, activeAiMessageId,
              apiKey, initDone, rIsLoading, rChatSession, now, calls,
              nAccepted, nCleanup, nChunks, nEscaped, sidebarCollapsed >>

\* onChange of the textarea, ChatInput.tsx line 122.
handleChange(d) ==
  /\ initDone
  /\ route = "/"
  /\ d # message
  /\ message' = d
  /\ lastOp' = Op("change", TRUE, d, NoThrow)
  /\ UNCHANGED << appVars, route >>

\* A forwarding that passes the draft on as it is.
ForwardedUntrimmed(m) == m

\* The argument of onSendMessage, ChatInput.tsx line 67.
Forwarded(m) == Trim(m)

\* The test of ChatInput.tsx line 66, on the draft and the isLoading prop
\* of the render the handler belongs to.
MaySend == Truthy(Trim(message)) /\ ~rIsLoading

\* handleSend, ChatInput.tsx lines 65-70: the call of onSendMessage runs
\* handleSendMessage up to its return or its first await, then the draft
\* is emptied.
handleSend ==
  /\ initDone
  /\ route = "/"
  /\ IF MaySend
       THEN /\ handleSendMessage(Forwarded(message))
            /\ message' = <<>>
       ELSE /\ lastOp' = Op("handleSend", FALSE, message, NoThrow)
            /\ UNCHANGED << appVars, route, message >>

\* A key handler that does not look at the shift key.
handleKeyDownIgnoringShift(key, shiftKey) ==
  IF key = "Enter"
    THEN handleSend
    ELSE /\ initDone
         /\ route = "/"
         /\ lastOp' = Op("keyDown", FALSE,
                         IF shiftKey THEN << "Shift", key >> ELSE << key >>,
                         NoThrow)
         /\ UNCHANGED << appVars, route, message >>

\* handleKeyDown, ChatInput.tsx lines 79-84.
handleKeyDown(key, shiftKey) ==
  IF key = "Enter" /\ ~shiftKey
    THEN handleSend
    ELSE /\ initDone
         /\ route = "/"
         /\ lastOp' = Op("keyDown", FALSE,
                         IF shiftKey THEN << "Shift", key >> ELSE << key >>,
                         NoThrow)
         /\ UNCHANGED << appVars, route, message >>

\* A click on the send button, ChatInput.tsx lines 137-141: the button is
\* disabled while isLoading or while the draft is blank.
handleClick ==
  /\ ~(rIsLoading \/ ~Truthy(Trim(message)))
  /\ handleSend

\* handleHome, line 272.
handleHome ==
  /\ initDone
  /\ route' = "/"
  /\ lastOp' = Op("home", TRUE, <<>>, NoThrow)
  /\ UNCHANGED << appVars, message >>

\* handleAbout, line 291: the chat page is unmounted, and with it the input
\* box and its draft.
handleAbout ==
  /\ initDone
  /\ route' = "/about"
  /\ message' = <<>>
  /\ lastOp' = Op("about", TRUE, <<>>, NoThrow)
  /\ UNCHANGED appVars

\* A sidebar toggle that also ends the loading state.
handleToggleSidebarReleasing ==
  /\ initDone
  /\ sidebarCollapsed' = ~sidebarCollapsed
  /\ isLoading' = FALSE
  /\ lastOp' = Op("toggle", TRUE, <<>>, NoThrow)
  /\ UNCHANGED << messages, error, chatSession, activeAiMessageId,
                  apiKey, initDone, rIsLoading, rChatSession, now, calls,
                  nAccepted, nCleanup, nChunks, nEscaped, message, route >>

\* handleToggleSidebar, line 294.
handleToggleSidebar ==
  /\ initDone
  /\ sidebarCollapsed' = ~sidebarCollapsed
  /\ lastOp' = Op("toggle", TRUE, <<>>, NoThrow)
  /\ UNCHANGED << messages, isLoading, error, chatSession, activeAiMessageId,
                  apiKey, initDone, rIsLoading, rChatSession, now, calls,
                  nAccepted, nCleanup, nChunks, nEscaped, message, route >>

\* The exchange logic with the pages and the sidebar: the steps of Next and
\* the handlers of lines 272, 291 and 294.
NavNext ==
  \/ InitNoKey
  \/ InitCreated
  \/ \E e \in Errors : InitThrows(e)
  \/ Render
  \/ \E p \in Prompts : send(p)
  \/ \E c \in calls : StreamOpen(c)
  \/ \E c \in calls, f \in Fragments : StreamChunk(c, f)
  \/ \E c \in calls : StreamComplete(c)
  \/ \E c \in calls, e \in Errors : StreamFail(c, e)
  \/ handleNewChat
  \/ DismissError
  \/ handleHome
  \/ handleAbout
  \/ handleToggleSidebar

NavSpec == Init /\ [][NavNext]_vars

\* The exchange logic behind the input box of the chat page: prompts reach
\* handleSendMessage through ChatInput only (line 462).
InputNext ==
  \/ InitNoKey
  \/ InitCreated
  \/ \E e \in Errors : InitThrows(e)
  \/ Render
  \/ \E d \in Drafts : handleChange(d)
  \/ \E key \in Keys, shiftKey \in BOOLEAN : handleKeyDown(key, shiftKey)
  \/ handleClick
  \/ \E c \in calls : StreamOpen(c)
  \/ \E c \in calls, f \in Fragments : StreamChunk(c, f)
  \/ \E c \in calls : StreamComplete(c)
  \/ \E c \in calls, e \in Errors : StreamFail(c, e)
  \/ handleNewChat
  \/ DismissError

InputSpec == Init /\ [][InputNext]_vars

\* An opened stream comes to its end: the loop over it exits or throws.
StreamEnds(c) ==
  /\ c \in calls
  /\ c.pc = "stream"
  /\ (StreamComplete(c) \/ \E e \in Errors : StreamFail(c, e))

\* The await of sendMessageStream, line 218, settles: the promise resolves
\* or rejects.
OpenSettles(c) ==
  /\ c \in calls
  /\ c.pc = "open"
  /\ (StreamOpen(c) \/ \E e \in Errors : StreamFail(c, e))

\* The program with a stream collaborator whose opened streams all end.
FairSpec == Spec /\ WF_vars(\E c \in calls : StreamEnds(c))

(***************************************************************************)
(* Properties.                                                             *)
(***************************************************************************)

\* The concatenation, in order, of the non-empty fragments of fs.
RECURSIVE ConcatNonEmpty(_)
ConcatNonEmpty(fs) ==
  IF fs = <<>> THEN <<>>
  ELSE IF Head(fs) = <<>> THEN ConcatNonEmpty(Tail(fs))
       ELSE Head(fs) \o ConcatNonEmpty(Tail(fs))

\* C1: single-flight.  At most one exchange is in flight at any time, and a
\* send issued while busy (isLoading) is rejected: it appends no record and
\* opens no stream.
C1_SingleFlight ==
  /\ [](Cardinality(calls) <= 1)
  /\ [][(lastOp'.op = "send" /\ isLoading)
          => (~lastOp'.ok /\ messages' = messages /\ calls' = calls)]_vars

\* A non-blank prompt was sent while an exchange was in flight, and it was
\* rejected.
C1_Witness ==
  /\ lastOp.op = "send"
  /\ ~lastOp.ok
  /\ Truthy(Trim(lastOp.arg))
  /\ isLoading
  /\ \E c \in calls : c.pc = "stream" /\ c.chunks # <<>>

\* C2: prefix monotonicity.  While an exchange is in flight and its
\* placeholder is in the transcript, the placeholder's text is the
\* concatenation, in arrival order, of the non-empty fragments received so
\* far; an empty fragment changes nothing.
C2_PrefixMonotonicity ==
  \A c \in calls :
    ~c.stale =>
      /\ c.index <= Len(messages)
      /\ messages[c.index].id = c.newAiMessageId
      /\ messages[c.index].text = ConcatNonEmpty(c.chunks)

\* A non-empty fragment, an empty one and another non-empty one have been
\* processed.
C2_Witness ==
  \E c \in calls :
    /\ ~c.stale
    /\ c.chunks = << <<"a">>, <<>>, <<"b">> >>
    /\ messages[c.index].text = <<"a", "b">>

\* C3: cleanup.  Every accepted send that has settled has run the finally
\* block exactly once, none still in flight has run it, and right after an
\* exchange settles, by completion or by failure, isLoading is false and
\* activeAiMessageId is null.
C3_Cleanup ==
  /\ nCleanup + Cardinality(calls) = nAccepted
  /\ lastOp.op \in {"complete", "openFail", "streamFail"}
       => (~isLoading /\ activeAiMessageId = null)

\* An exchange failed before its stream opened, and settled.
C3_Witness ==
  /\ lastOp.op = "openFail"
  /\ nAccepted = 1
  /\ nCleanup = 1
  /\ calls = {}

\* The call that settles in a step, if any.
Settling(c) == c \in calls /\ c \notin calls'

\* s consists of whitespace only.
IsBlank(s) == \A i \in 1..Len(s) : s[i] = " "

\* The error string for a thrown value e: the description when there is a
\* non-empty one, a fixed fallback otherwise.
ErrorString(e) ==
  IF e.has /\ e.message # <<>>
    THEN <<"Sorry, I encountered an error: ">> \o e.message
    ELSE <<"Sorry, I encountered an error: ", "Unknown API error">>

\* C4: error containment.  When the stream fails after producing fragments,
\* the placeholder's text becomes the error string, its role stays AI, and
\* no other record changes: the number of records and every record other
\* than the placeholder are as before.
C4_ErrorContainment ==
  [][\A c \in calls :
       (lastOp'.op = "streamFail" /\ Settling(c) /\ c.chunks # <<>>) =>
         /\ Len(messages') = Len(messages)
         /\ \A i \in 1..Len(messages) :
              (c.stale \/ i # c.index) => messages'[i] = messages[i]
         /\ ~c.stale =>
              messages'[c.index] =
                [messages[c.index] EXCEPT !.text = ErrorString(lastOp'.e)]
    ]_vars

\* C5: exactly two appends.  An accepted send appends, before any fragment
\* is processed, a USER record with the prompt and then an AI placeholder
\* with empty text, changes no earlier record, and sets activeAiMessageId to
\* the placeholder's id.
C5_ExactlyTwoAppends ==
  [][(lastOp'.op = "send" /\ lastOp'.ok) =>
       LET n == Len(messages) IN
         /\ Len(messages') = n + 2
         /\ SubSeq(messages', 1, n) = messages
         /\ messages'[n + 1].role = USER
         /\ messages'[n + 1].text = lastOp'.arg
         /\ messages'[n + 2].role = AI
         /\ messages'[n + 2].text = <<>>
         /\ activeAiMessageId' = messages'[n + 2].id
         /\ \E c \in calls' : c \notin calls /\ c.pc = "open" /\ c.chunks = <<>>
    ]_vars

\* A send has just been accepted after an earlier exchange settled.
C5_Witness ==
  /\ lastOp.op = "send"
  /\ lastOp.ok
  /\ Len(messages) = 5
  /\ messages[4].role = USER
  /\ messages[4].text = <<" ", "X", " ">>
  /\ messages[5].role = AI
  /\ messages[5].text = <<>>
  /\ activeAiMessageId = messages[5].id

\* C6: precondition rejection is a no-op.  A send whose prompt is blank, or
\* that is issued while isLoading, or while there is no chat session, is
\* rejected and changes neither the transcript, nor isLoading, nor
\* activeAiMessageId, nor the error, nor the calls in flight.
C6_RejectionNoOp ==
  [][(/\ lastOp'.op = "send"
      /\ (IsBlank(lastOp'.arg) \/ isLoading \/ chatSession = "null")) =>
       /\ ~lastOp'.ok
       /\ UNCHANGED << messages, isLoading, activeAiMessageId, error,
                       chatSession, calls >>
    ]_vars

\* A blank prompt was rejected while nothing else stood in the way.
C6_Witness ==
  /\ lastOp.op = "send"
  /\ ~lastOp.ok
  /\ lastOp.arg = <<" ">>
  /\ ~isLoading
  /\ ~rIsLoading
  /\ rChatSession = "chat"

\* C7 as claimed: in every reachable state isLoading is true if and only if
\* activeAiMessageId is not null.
C7_BusyIffActive == isLoading <=> (activeAiMessageId # null)

\* C7 amended: once the initialization effect has run, isLoading is true if
\* and only if activeAiMessageId is not null; until then isLoading is true
\* and activeAiMessageId is null.
C7_BusyIffActiveAfterInit ==
  IF initDone
    THEN isLoading <=> (activeAiMessageId # null)
    ELSE isLoading /\ activeAiMessageId = null

\* Between two steps of an exchange: a fragment has been processed.
C7_Witness ==
  /\ initDone
  /\ isLoading
  /\ activeAiMessageId # null
  /\ \E c \in calls : c.pc = "stream" /\ c.chunks # <<>>

\* C8: the ids of the records in the transcript are pairwise distinct.
C8_UniqueIds ==
  \A i, j \in 1..Len(messages) :
    i # j => messages[i].id # messages[j].id

\* C9: after handleNewChat during an exchange, no later step changes the
\* transcript: it stays the single welcome record with the welcome text.
C9_StaleExchangeDropped ==
  [][(\E c \in calls : c.stale) =>
       /\ Len(messages') = 1
       /\ messages'[1].role = AI
       /\ messages'[1].text = WelcomeText
    ]_vars

\* C10: when an exchange fails, before or after its stream opened, the
\* placeholder's text becomes the error string for the thrown value and the
\* user record of the exchange keeps the prompt.
C10_ErrorText ==
  [][\A c \in calls :
       (/\ lastOp'.op \in {"openFail", "streamFail"}
        /\ Settling(c)
        /\ ~c.stale) =>
         /\ messages'[c.index].text = ErrorString(lastOp'.e)
         /\ messages'[c.index - 1].role = USER
         /\ messages'[c.index - 1].text = c.prompt
    ]_vars

\* The open call failed with the description "timeout".
C10_Witness ==
  /\ lastOp.op = "openFail"
  /\ lastOp.e = [has |-> TRUE, message |-> <<"timeout">>]
  /\ Len(messages) = 3
  /\ messages[2].text = <<" ", "X", " ">>
  /\ Includes(messages[3].text, <<"timeout">>)

\* C11: nothing escapes handleSendMessage.  No value is ever thrown out of
\* it; whatever the prompt, the session and the value thrown by the open
\* call or by the stream, the failing step settles the call, runs the
\* finally block, and either rewrites records with the error string or
\* leaves the transcript as it was (the records of the exchange are gone).
C11_NothingEscapes ==
  /\ [](nEscaped = 0)
  /\ [][\A c \in calls :
          ((\A d \in calls' : d.k # c.k) /\ lastOp'.op # "complete")
            => /\ lastOp'.op \in {"openFail", "streamFail"}
               /\ calls' = calls \ {c}
               /\ ~isLoading'
               /\ activeAiMessageId' = null
               /\ Len(messages') = Len(messages)
               /\ \/ messages' = messages
                  \/ \E i \in 1..Len(messages) :
                       /\ messages[i].id = c.newAiMessageId
                       /\ messages'[i].text = ErrorString(lastOp'.e)
       ]_vars

\* The stream threw a value without a description and the call settled.
C11_Witness ==
  /\ lastOp.op = "streamFail"
  /\ lastOp.e = [has |-> FALSE, message |-> <<>>]
  /\ nEscaped = 0
  /\ calls = {}
  /\ ~isLoading
  /\ Len(messages) = 3
  /\ messages[3].text = ErrorString(lastOp.e)

\* The transcript ends with the records of a failed exchange.
FailedTail(msgs) ==
  /\ Len(msgs) >= 2
  /\ msgs[Len(msgs) - 1].role = USER
  /\ msgs[Len(msgs)].role = AI
  /\ \E e \in Errors : msgs[Len(msgs)].text = ErrorString(e)

\* C12: a failed exchange does not block later ones.  Once a failed exchange
\* has settled and the component has rendered the settled state, a send
\* with a non-blank prompt is accepted and appends its USER record and its
\* placeholder after the records of the failed exchange, which it keeps.
C12_FailureDoesNotBlock ==
  [][(/\ lastOp'.op = "send"
      /\ ~IsBlank(lastOp'.arg)
      /\ FailedTail(messages)
      /\ calls = {}
      /\ ~rIsLoading) =>
       LET n == Len(messages) IN
         /\ lastOp'.ok
         /\ Len(messages') = n + 2
         /\ SubSeq(messages', 1, n) = messages
         /\ messages'[n + 1].role = USER
         /\ messages'[n + 1].text = lastOp'.arg
         /\ messages'[n + 2].role = AI
         /\ messages'[n + 2].text = <<>>
         /\ Cardinality(calls') = 1
    ]_vars

\* A send was accepted right after the records of a failed exchange.
C12_Witness ==
  /\ lastOp.op = "send"
  /\ lastOp.ok
  /\ Len(messages) = 5
  /\ FailedTail(SubSeq(messages, 1, 3))
  /\ messages[4].role = USER
  /\ messages[5].text = <<>>
  /\ Truthy(error)

\* C13: append-only transcript.  Between resets (initialization,
\* handleNewChat) a step keeps every record where it is, with its id, role
\* and timestamp, and only adds records at the tail; a record whose text
\* changes is an AI record whose id is activeAiMessageId, and it is the
\* placeholder of the exchange in flight, never a record of an exchange
\* that has settled.
C13_AppendOnly ==
  [][lastOp'.op \notin {"init", "newChat"} =>
       /\ Len(messages') >= Len(messages)
       /\ \A i \in 1..Len(messages) :
            /\ messages'[i] = [messages[i] EXCEPT !.text = messages'[i].text]
            /\ messages'[i].text # messages[i].text =>
                 /\ messages[i].role = AI
                 /\ messages[i].id = activeAiMessageId
                 /\ \E c \in calls : ~c.stale /\ c.index = i
    ]_vars

\* The call c of an exchange whose records are in the transcript settles in
\* this step, by the end of its stream or by a failure.
SettlesHere(c) ==
  /\ c \in calls
  /\ ~c.stale
  /\ lastOp'.op \in {"complete", "openFail", "streamFail"}
  /\ \A d \in calls' : d.k # c.k

\* C14 as claimed: when an accepted send settles with no handleNewChat in
\* between, the transcript holds one AI record for the exchange, right after
\* its USER record, whose text is the streamed answer or the error string
\* and is never blank.
C14_OneAnswerNeverBlank ==
  [][\A c \in calls :
       SettlesHere(c) =>
         /\ Len(messages') = c.index
         /\ messages'[c.index - 1].role = USER
         /\ messages'[c.index].role = AI
         /\ messages'[c.index].text =
              (IF lastOp'.op = "complete" THEN ConcatNonEmpty(c.chunks)
                                          ELSE ErrorString(lastOp'.e))
         /\ ~IsBlank(messages'[c.index].text)
    ]_vars

\* C14 amended: when an accepted send settles with no handleNewChat in
\* between, the transcript holds one AI record for the exchange, right after
\* its USER record; its text is the concatenation of the non-empty
\* fragments received when the stream ended (the empty string when there
\* were none) and the error string when the exchange failed.
C14_OneAnswer ==
  [][\A c \in calls :
       SettlesHere(c) =>
         /\ Len(messages') = c.index
         /\ messages'[c.index - 1].role = USER
         /\ messages'[c.index - 1].text = c.prompt
         /\ messages'[c.index].role = AI
         /\ messages'[c.index].text =
              (IF lastOp'.op = "complete" THEN ConcatNonEmpty(c.chunks)
                                          ELSE ErrorString(lastOp'.e))
         /\ (lastOp'.op # "complete") => ~IsBlank(messages'[c.index].text)
    ]_vars

\* A stream that yielded one empty fragment ended: the AI record of the
\* exchange is blank.
C14_Witness ==
  /\ lastOp.op = "complete"
  /\ calls = {}
  /\ nChunks = 1
  /\ Len(messages) = 3
  /\ messages[2].role = USER
  /\ messages[3].role = AI
  /\ messages[3].text = <<>>

\* C15: normal termination.  When the stream ends, the step changes no
\* record: the placeholder keeps the accumulated text, which is the empty
\* string when the stream yielded no fragment or only empty ones; no error
\* is recorded, isLoading is false and activeAiMessageId is null.
C15_NormalTermination ==
  [][\A c \in calls :
       (SettlesHere(c) /\ lastOp'.op = "complete") =>
         /\ messages' = messages
         /\ messages'[c.index].text = c.accumulatedResponseText
         /\ (\A i \in 1..Len(c.chunks) : c.chunks[i] = <<>>)
              => messages'[c.index].text = <<>>
         /\ error' = NoError
         /\ ~isLoading'
         /\ activeAiMessageId' = null
    ]_vars

\* A stream that yielded no fragment at all ended.
C15_Witness ==
  /\ lastOp.op = "complete"
  /\ nChunks = 0
  /\ nAccepted = 1
  /\ messages[Len(messages)].text = <<>>
  /\ messages[Len(messages)].role = AI
  /\ error = NoError
  /\ ~isLoading
  /\ activeAiMessageId = null

\* C16: handleNewChat replaces the transcript, whatever it held, with one
\* record: the welcome message, of role AI, created by this step.
C16_NewChatReplaces ==
  [][lastOp'.op = "newChat" =>
       /\ Len(messages') = 1
       /\ messages'[1].role = AI
       /\ messages'[1].text = WelcomeText
       /\ messages'[1].id = now'
       /\ messages'[1].timestamp = now'
    ]_vars

\* A new chat was started from the transcript of a start without API key.
C16_Witness ==
  /\ lastOp.op = "newChat"
  /\ ~apiKey
  /\ chatSession = "null"
  /\ messages = << WelcomeMessage(now) >>

\* C17: start-up outcomes.  Right after the initialization effect, on each
\* of its outcomes, the transcript holds one record, of role AI: the welcome
\* message exactly when a chat session was created, the configuration-error
\* message when no API key is configured, the initialization-error message
\* when creating the session threw; and isLoading is false.
C17_StartupOutcomes ==
  lastOp.op = "init" =>
    /\ initDone
    /\ ~isLoading
    /\ Len(messages) = 1
    /\ messages[1].role = AI
    /\ (messages[1].text = WelcomeText) <=> (chatSession = "chat")
    /\ chatSession = "chat" => (apiKey /\ lastOp.ok)
    /\ ~apiKey => (chatSession = "null" /\ messages[1].text = ConfigErrorText)
    /\ (apiKey /\ chatSession = "null") =>
         /\ messages[1].text # ConfigErrorText
         /\ messages[1].text[1] = "Error initializing AI: "
         /\ messages[1].text[2] =
              (IF lastOp.e.has /\ lastOp.e.message # <<>>
                 THEN lastOp.e.message[1] ELSE "Unknown error")

\* Creating the session threw a value without a description.
C17_Witness ==
  /\ lastOp.op = "init"
  /\ apiKey
  /\ chatSession = "null"
  /\ ~lastOp.e.has
  /\ Len(messages) = 1
  /\ messages[1].text[2] = "Unknown error"
  /\ ~isLoading

\* C18: no session after a failed initialization.  When initialization has
\* failed there is no chat session, and there never will be one: the effect
\* does not run again, every send is rejected and leaves the transcript as
\* it is, and no exchange is ever accepted or in flight.
C18_NoSessionNoExchange ==
  /\ []((initDone /\ chatSession = "null") =>
          /\ rChatSession = "null"
          /\ nAccepted = 0
          /\ calls = {}
          /\ ~isLoading
          /\ lastOp.op = "send" => ~lastOp.ok)
  /\ [][(initDone /\ chatSession = "null") =>
          /\ chatSession' = "null"
          /\ lastOp'.op \in {"render", "send", "newChat", "dismiss"}
          /\ lastOp'.op = "send" => UNCHANGED << messages, isLoading, error >>
       ]_vars

\* After a start without API key and a new chat, a non-blank prompt was
\* sent to the re-rendered component and rejected.
C18_Witness ==
  /\ initDone
  /\ chatSession = "null"
  /\ ~rIsLoading
  /\ lastOp.op = "send"
  /\ ~lastOp.ok
  /\ ~IsBlank(lastOp.arg)
  /\ messages[1].text = WelcomeText
  /\ nAccepted = 0

\* C19: the banner after a failed initialization.  Right after a failed
\* initialization the banner is shown; while there is no session it stays
\* shown across every step other than its dismissal (sends, new chats,
\* renders); dismissing it hides it; and once hidden it stays hidden.
C19_StandingBanner ==
  /\ []((lastOp.op = "init" /\ chatSession = "null") => showBannerError)
  /\ [][(initDone /\ chatSession = "null") =>
          /\ (showBannerError /\ lastOp'.op # "dismiss") => showBannerError'
          /\ lastOp'.op = "dismiss" => (showBannerError /\ ~showBannerError')
          /\ ~showBannerError => ~showBannerError'
       ]_vars

\* The banner of a failed initialization outlived a new chat and was then
\* dismissed.
C19_Witness ==
  /\ chatSession = "null"
  /\ lastOp.op = "dismiss"
  /\ messages[1].text = WelcomeText
  /\ error = NoError
  /\ ~showBannerError

\* No exchange is in flight and the flags of an exchange are released.
Settled == calls = {} /\ ~isLoading /\ activeAiMessageId = null

\* C20 as claimed: if every opened stream eventually ends or fails, every
\* accepted send eventually settles: isLoading becomes false and
\* activeAiMessageId null.
C20_Termination == (calls # {}) ~> Settled

\* C20 amended: if every opened stream eventually ends or fails, every
\* accepted send whose stream has opened eventually settles, whatever sends,
\* new chats and dismissals happen meanwhile; if in addition the await of
\* sendMessageStream eventually resolves or rejects, every accepted send
\* eventually settles.
C20_TerminationOnceOpened ==
  /\ (\E c \in calls : c.pc = "stream") ~> Settled
  /\ WF_vars(\E c \in calls : OpenSettles(c)) => ((calls # {}) ~> Settled)

\* The second exchange settled by the end of its stream after a new chat
\* was started while it was in flight.
C20_Witness ==
  /\ lastOp.op = "complete"
  /\ nAccepted = 2
  /\ Settled
  /\ Len(messages) = 1

\* C21: the phases of an exchange.  A call enters by an accepted send that
\* has appended both records (SENDING: it awaits sendMessageStream), goes on
\* to the loop only when the stream opens (STREAMING), takes fragments only
\* there, and leaves by the end of the stream or by a failure, always
\* through the finally block, which leaves isLoading false and
\* activeAiMessageId null (IDLE).  A step that changes the text of a record
\* is a step of the call in flight, on records with its placeholder's id,
\* before its finally block has run.
C21_ExchangePhases ==
  [][/\ \A c \in calls' :
          LET before == { d \in calls : d.k = c.k } IN
            IF before = {}
              THEN /\ lastOp'.op = "send"
                   /\ lastOp'.ok
                   /\ calls = {}
                   /\ c.pc = "open"
                   /\ c.chunks = <<>>
                   /\ Len(messages') = c.index
                   /\ messages'[c.index - 1].role = USER
                   /\ messages'[c.index].role = AI
                   /\ messages'[c.index].id = c.newAiMessageId
              ELSE \A d \in before :
                     /\ \/ c.pc = d.pc
                        \/ d.pc = "open" /\ c.pc = "stream" /\ lastOp'.op = "open"
                     /\ c.chunks # d.chunks =>
                          (d.pc = "stream" /\ c.pc = "stream" /\ lastOp'.op = "chunk")
     /\ \A d \in calls :
          (\A c \in calls' : c.k # d.k) =>
            /\ \/ d.pc = "stream" /\ lastOp'.op \in {"complete", "streamFail"}
               \/ d.pc = "open" /\ lastOp'.op = "openFail"
            /\ nCleanup = d.k - 1
            /\ nCleanup' = d.k
            /\ ~isLoading'
            /\ activeAiMessageId' = null
     /\ \A i \in 1..Len(messages) :
          (/\ lastOp'.op \notin {"init", "newChat"}
           /\ messages'[i].text # messages[i].text) =>
            \E d \in calls :
              /\ lastOp'.op \in {"chunk", "openFail", "streamFail"}
              /\ messages[i].id = d.newAiMessageId
              /\ nCleanup = d.k - 1
              /\ isLoading
    ]_vars

\* An exchange went through every phase: sent, opened, two fragments, end.
C21_Witness ==
  /\ lastOp.op = "complete"
  /\ nAccepted = 1
  /\ nCleanup = 1
  /\ nChunks = 2
  /\ calls = {}
  /\ Len(messages) = 3
  /\ messages[3].text = <<"a", "b">>
  /\ ~isLoading

\* C22: only the exchange in flight releases the busy state.  After
\* initialization a new chat, a dismissal of the banner, a send that is not
\* accepted, a sidebar toggle
\* and a navigation leave isLoading, activeAiMessageId and chatSession as
\* they are and settle no call; isLoading becomes false only in the step in
\* which the call in flight ends or fails; and while a call is in flight,
\* also after a new chat, no send is accepted.
C22_OnlySettlingReleases ==
  [][initDone =>
       /\ (\/ lastOp'.op \in {"newChat", "dismiss", "toggle", "home", "about"}
           \/ lastOp'.op = "send" /\ ~lastOp'.ok) =>
            /\ UNCHANGED << isLoading, activeAiMessageId, chatSession >>
            /\ { c.k : c \in calls' } = { c.k : c \in calls }
       /\ (isLoading /\ ~isLoading') =>
            /\ lastOp'.op \in {"complete", "openFail", "streamFail"}
            /\ \E d \in calls : \A c \in calls' : c.k # d.k
       /\ (calls # {} \/ isLoading) =>
            /\ nAccepted' = nAccepted
            /\ lastOp'.op = "send" =>
                 (~lastOp'.ok /\ UNCHANGED << messages, calls >>)
    ]_vars

\* With the sidebar collapsed, back from the about page, and a stream still
\* running after a new chat, a non-blank prompt was sent and rejected.
C22_Witness ==
  /\ lastOp.op = "send"
  /\ ~lastOp.ok
  /\ ~IsBlank(lastOp.arg)
  /\ sidebarCollapsed
  /\ route = "/"
  /\ isLoading
  /\ Len(messages) = 1
  /\ \E c \in calls : c.stale /\ c.pc = "stream"

C24_OnlyTextChanges ==
  [][\A d \in calls :
       lastOp'.op \in {"chunk", "openFail", "streamFail"} =>
         /\ Len(messages') = Len(messages)
         /\ \A i \in 1..Len(messages) :
              /\ messages'[i].id = messages[i].id
              /\ messages'[i].role = messages[i].role
              /\ messages'[i].timestamp = messages[i].timestamp
              /\ messages[i].id # d.newAiMessageId => messages'[i] = messages[i]
    ]_vars

\* A fragment has just replaced the text of the placeholder, whose id and
\* timestamp are those it was created with.
C24_Witness ==
  /\ lastOp.op = "chunk"
  /\ lastOp.ok
  /\ Len(messages) = 3
  /\ messages[2].role = USER
  /\ messages[3] = Message(3, AI, << "a" >>, 2)

\* C25: the loading indicator.  The records whose id is activeAiMessageId
\* (those rendered with the indicator, line 453) are at most one, and that
\* one is the AI placeholder of the exchange in flight.
C25_IndicatorOnPlaceholder ==
  LET shown == { i \in 1..Len(messages) : messages[i].id = activeAiMessageId }
  IN /\ Cardinality(shown) <= 1
     /\ \A i \in shown :
          /\ messages[i].role = AI
          /\ \E c \in calls : ~c.stale /\ c.index = i

\* error occurs in text as a contiguous run.
Contains(text, err) ==
  \E i \in 1..(Len(text) + 1) : \E j \in (i - 1)..Len(text) :
    SubSeq(text, i, j) = err

\* C26: the banner rule.  The banner is shown exactly when there is an
\* error and the last record is not an AI record whose text contains it;
\* so right after a failure of an exchange whose records are in the
\* transcript the error is the text of the last record and the banner is
\* not shown.
C26_BannerRule ==
  /\ [](showBannerError <=>
          /\ error # NoError
          /\ ~(/\ messages # <<>>
               /\ messages[Len(messages)].role = AI
               /\ Contains(messages[Len(messages)].text, error)))
  /\ [][\A c \in calls :
          (SettlesHere(c) /\ lastOp'.op \in {"openFail", "streamFail"}) =>
            /\ error' # NoError
            /\ messages'[Len(messages')].text = error'
            /\ ~showBannerError'
       ]_vars

\* A stream failed after a fragment, and the error is inline only.
C26_Witness ==
  /\ lastOp.op = "streamFail"
  /\ nChunks > 0
  /\ error # NoError
  /\ messages[Len(messages)].text = error
  /\ Len(messages) = 3
  /\ ~showBannerError

\* C27: the error of an earlier exchange.  An accepted send leaves the
\* error as it is, and while its call waits for the stream to open the
\* error changes only if the user dismisses the banner; the step in which
\* the stream opens clears it, so that it is null when an exchange ends
\* without failure.
C27_ErrorClearedOnOpen ==
  [][/\ lastOp'.op = "send" => error' = error
     /\ lastOp'.op = "open" => error' = NoError
     /\ lastOp'.op = "complete" => (error = NoError /\ error' = NoError)
     /\ (/\ \E c \in calls : c.pc = "open"
         /\ \E c \in calls' : c.pc = "open"
         /\ lastOp'.op # "dismiss") => error' = error
    ]_vars

\* The second exchange has just been accepted: the error of the first is
\* still set, and shown in the banner.
C27_Witness ==
  /\ lastOp.op = "send"
  /\ lastOp.ok
  /\ nAccepted = 2
  /\ Len(messages) = 5
  /\ error = messages[3].text
  /\ showBannerError
  /\ \E c \in calls : c.pc = "open"

\* C28: the draft and the outcome of the send.  A send that the
\* application rejects leaves the draft as it was, and whenever a send
\* empties the draft the prompt handed over is appended as a USER record.
C28_DraftKeptWhenRejected ==
  [][/\ (lastOp'.op = "send" /\ ~lastOp'.ok) => message' = message
     /\ (lastOp'.op = "send" /\ message # << >> /\ message' = << >>) =>
          \E i \in (Len(messages) + 1)..Len(messages') :
            messages'[i].role = USER /\ messages'[i].text = lastOp'.arg
    ]_vars

\* C29: the guard of the input box.  A prompt is handed to the application
\* only from a draft that is not blank while the box is not shown as busy,
\* it is the trimmed draft, and one key press or click starts at most one
\* exchange; Shift+Enter hands over nothing, and a key press or click that
\* hands over nothing leaves the draft and the transcript as they were.
C29_InputGuard ==
  [][/\ lastOp'.op = "send" =>
          /\ Truthy(Trim(message))
          /\ ~rIsLoading
          /\ lastOp'.arg = Trim(message)
     /\ nAccepted' <= nAccepted + 1
     /\ Len(messages') <= Len(messages) + 2
     /\ handleKeyDown("Enter", TRUE) =>
          (lastOp'.op # "send" /\ UNCHANGED << message, messages, calls, nAccepted >>)
     /\ lastOp'.op \in {"handleSend", "keyDown"} =>
          UNCHANGED << message, messages, calls, nAccepted >>
    ]_vars

\* Shift+Enter was pressed on a draft that Enter alone would have sent.
C29_Witness ==
  /\ lastOp.op = "keyDown"
  /\ lastOp.arg = << "Shift", "Enter" >>
  /\ message = << "X" >>
  /\ ~rIsLoading
  /\ ~isLoading
  /\ ~Rejected(Trim(message))
  /\ Len(messages) = 1
====
